---- MODULE Spec2Model ----
(***************************************************************************)
(* HomeBot: the polling loop of src/homework.py and the exception classes  *)
(* of src/exceptions.py.                                                   *)
(*                                                                         *)
(* Python values are modelled as tagged records [type, val]; a dict is a   *)
(* function whose DOMAIN is its key set; a str built by an f-string is the *)
(* tuple of its pieces.  The Russian string literals of the source are     *)
(* transliterated (the original is quoted in the comment next to each).    *)
(***************************************************************************)
EXTENDS Integers, Sequences, FiniteSets, TLC

(* ------------------------------ bounds -------------------------------- *)

\* the integer current_date values offered by the API are 1..MaxDate (next
\* to them the API may offer one that is not an integer, see DateValues)
MaxDate == 1

\* the homeworks list of a response holds at most MaxHomeworks records
MaxHomeworks == 2

(* ------------------------- program constants -------------------------- *)

\* RETRY_PERIOD = 600
RETRY_PERIOD == 600

\* HTTPStatus.OK
HTTP_OK == 200

\* TIMEOUT = 10 (line 32); no statement of the program reads it
TIMEOUT == 10

\* requests.get's timeout=None: wait for the reply without limit
NoTimeout == 0 - 1

\* the timeout argument of the request on line 50: requests.get(ENDPOINT,
\* headers=HEADERS, params=params) passes none, so the default None applies
request_timeout == NoTimeout

\* non-success statuses the endpoint may answer with
BadStatuses == {503, 404}

\* HOMEWORK_VERDICTS: status -> verdict text
\*   'approved':  'Работа проверена: ревьюеру всё понравилось. Ура!'
\*   'reviewing': 'Работа взята на проверку ревьюером.'
\*   'rejected':  'Работа проверена: у ревьюера есть замечания.'
HOMEWORK_VERDICTS ==
    [approved  |-> "Rabota proverena: revyueru vsyo ponravilos. Ura!",
     reviewing |-> "Rabota vzyata na proverku revyuerom.",
     rejected  |-> "Rabota proverena: u revyuera est zamechaniya."]

(* --------------------------- Python values ---------------------------- *)

PyDict(d) == [type |-> "dict", val |-> d]
PyList(s) == [type |-> "list", val |-> s]
PyNone == [type |-> "NoneType", val |-> <<>>]

\* a local variable that has not been assigned yet
Unbound == [type |-> "unbound", val |-> <<>>]

\* a str local that has not been assigned yet (every str of the program is a
\* non-empty tuple of pieces)
UnboundStr == <<>>

\* the value of int(time.time()) at startup; the API's dates are later
StartTime == 0

\* marks "no current_date" in the observations below
NoDate == 0 - 1

\* dict.get(key, default)
DictGet(d, key, default) == IF key \in DOMAIN d THEN d[key] ELSE default

\* Python truthiness of an environment value: None and '' are falsy
Truthy(v) == v \notin {"None", ""}

(* --------------------------- exceptions ------------------------------- *)

\* the direct base class of every exception class the program meets
BaseOf ==
    [CustomAPIResponseError |-> "Exception",
     HomeworkVerdictNotFound |-> "ValueError",
     NotForSendingError |-> "Exception",
     TelegramError |-> "NotForSendingError",
     JSONDecodeError |-> "Exception",
     ValueError |-> "Exception",
     ConnectionError |-> "Exception",
     TypeError |-> "Exception",
     KeyError |-> "Exception",
     UnboundLocalError |-> "Exception",
     ApiTelegramException |-> "Exception",
     Exception |-> "BaseException"]

RECURSIVE IsSubclass(_, _)
\* issubclass(cls, base), as an except clause decides it
IsSubclass(cls, base) ==
    IF cls = base THEN TRUE
    ELSE IF cls \in DOMAIN BaseOf THEN IsSubclass(BaseOf[cls], base)
    ELSE FALSE

NoExc == [type |-> "none", detail |-> <<>>]
Exc(t, detail) == [type |-> t, detail |-> detail]

Raise(t, detail) == [kind |-> "raise", exc |-> Exc(t, detail), value |-> Unbound]
Return(v) == [kind |-> "return", exc |-> NoExc, value |-> v]

(* ----------------------------- inputs -------------------------------- *)

Names == {"hw1"}

\* the vocabulary of HOMEWORK_VERDICTS and one status outside it
Statuses == DOMAIN HOMEWORK_VERDICTS \cup {"pending"}

\* a homework record: a dict with any subset of the keys homework_name, status
HomeworkRecords ==
    {<<>>}
    \cup {[homework_name |-> n] : n \in Names}
    \cup {[status |-> s] : s \in Statuses}
    \cup {[homework_name |-> n, status |-> s] : n \in Names, s \in Statuses}

HomeworkLists == UNION {[1..n -> HomeworkRecords] : n \in 0..MaxHomeworks}

Dates == 1..MaxDate

\* a current_date that is not an integer (a JSON string, say): JSON values of
\* the key are coded as integers here, 1..MaxDate standing for themselves and
\* this one for the value that is no integer
NotAnInteger == 0 - 2

\* isinstance(v, int) for a value of the key current_date
PyIsInt(v) == v # NotAnInteger

\* the values the key current_date may hold
DateValues == Dates \cup {NotAnInteger}

\* values the key homeworks may hold: a list of records, or something else
HomeworksValues == {PyList(l) : l \in HomeworkLists} \cup {PyNone}

\* decoded JSON objects: any subset of the keys homeworks, current_date
DictPayloads ==
    {PyDict(<<>>)}
    \cup {PyDict([current_date |-> d]) : d \in DateValues}
    \cup {PyDict([homeworks |-> h]) : h \in HomeworksValues}
    \cup {PyDict([homeworks |-> h, current_date |-> d]) :
             h \in HomeworksValues, d \in DateValues}

\* decoded JSON that is not an object: a list, null
OtherPayloads == {PyList(<<>>), PyNone}

Payloads == DictPayloads \cup OtherPayloads

\* requests.get raised a RequestException: no reply
TransportFailure ==
    [ok |-> FALSE, status_code |-> 0, json_ok |-> FALSE, body |-> PyNone]

\* what requests.get does: the transport fails, or a reply with a status code
\* and a body comes back; the body is JSON text (json_ok) of value body, or not
Replies ==
    {TransportFailure}
    \cup {[ok |-> TRUE, status_code |-> c, json_ok |-> FALSE, body |-> PyNone] :
             c \in BadStatuses \cup {HTTP_OK}}
    \cup {[ok |-> TRUE, status_code |-> c, json_ok |-> TRUE, body |-> PyDict(<<>>)] :
             c \in BadStatuses}
    \cup {[ok |-> TRUE, status_code |-> HTTP_OK, json_ok |-> TRUE, body |-> p] :
             p \in Payloads}

\* what bot.send_message does: returns, or raises one of these
DeliveryOutcomes == {"ok", "TelegramError", "ApiTelegramException"}

\* os.getenv of a variable: unset (None), set to '', set to a token
EnvValues == {"None", "", "tok"}

(* -------------------------- pure functions ---------------------------- *)

\* any() in the place of all(): one value is enough
check_tokens_any(e) ==
    Truthy(e.PRACTICUM_TOKEN) \/ Truthy(e.TELEGRAM_TOKEN) \/ Truthy(e.TELEGRAM_CHAT_ID)

\* check_tokens(): all([PRACTICUM_TOKEN, TELEGRAM_TOKEN, TELEGRAM_CHAT_ID])
check_tokens(e) ==
    Truthy(e.PRACTICUM_TOKEN) /\ Truthy(e.TELEGRAM_TOKEN) /\ Truthy(e.TELEGRAM_CHAT_ID)

\* get_api_answer decoding the body before it looks at the status code
get_api_answer_decode_first(reply) ==
    IF ~reply.ok
    THEN Raise("ConnectionError", <<"Oshibka ", "RequestException">>)
    ELSE IF ~reply.json_ok
    THEN Raise("JSONDecodeError",
               <<"Oshibka pri dekodirovanii JSON: ", "json.JSONDecodeError">>)
    ELSE IF reply.status_code # HTTP_OK
    THEN Raise("CustomAPIResponseError",
               <<"Neuspeshnyj status otveta API: ", reply.status_code>>)
    ELSE Return(reply.body)

\* get_api_answer(timestamp), given what requests.get did
\*   'Ошибка {error}', 'Неуспешный статус ответа API: {status_code}',
\*   'Ошибка при декодировании JSON: {error}'
get_api_answer(reply) ==
    IF ~reply.ok
    THEN Raise("ConnectionError", <<"Oshibka ", "RequestException">>)
    ELSE IF reply.status_code # HTTP_OK
    THEN Raise("CustomAPIResponseError",
               <<"Neuspeshnyj status otveta API: ", reply.status_code>>)
    ELSE IF ~reply.json_ok
    THEN Raise("JSONDecodeError",
               <<"Oshibka pri dekodirovanii JSON: ", "json.JSONDecodeError">>)
    ELSE Return(reply.body)

\* check_response without its last isinstance test: whatever the key
\* homeworks holds is returned
check_response_any_value(response) ==
    IF response.type # "dict"
    THEN Raise("TypeError",
               <<"Neozhidannyj format otveta: ", response.type,
                 "\nSoobshchenie: ", response>>)
    ELSE IF "homeworks" \notin DOMAIN response.val
    THEN Raise("KeyError", <<"V otvete net klyucha \"homeworks\"">>)
    ELSE Return(DictGet(response.val, "homeworks", PyNone))

\* check_response(response)
\*   'Неожиданный формат ответа: {type(response)}\nСообщение: {response}',
\*   'В ответе нет ключа "homeworks"',
\*   'Формат ответа не список,получен {type(response.get("homeworks"))}.'
check_response(response) ==
    IF response.type # "dict"
    THEN Raise("TypeError",
               <<"Neozhidannyj format otveta: ", response.type,
                 "\nSoobshchenie: ", response>>)
    ELSE IF "homeworks" \notin DOMAIN response.val
    THEN Raise("KeyError", <<"V otvete net klyucha \"homeworks\"">>)
    ELSE IF DictGet(response.val, "homeworks", PyNone).type # "list"
    THEN Raise("TypeError",
               <<"Format otveta ne spisok,", "poluchen ",
                 DictGet(response.val, "homeworks", PyNone).type, ".">>)
    ELSE Return(DictGet(response.val, "homeworks", PyNone))

\* the keys parse_status reports missing, in the order it appends them
missing_keys(homework) ==
    (IF "homework_name" \notin DOMAIN homework THEN <<"homework_name">> ELSE <<>>)
    \o (IF "status" \notin DOMAIN homework THEN <<"status">> ELSE <<>>)

\* f'Изменился статус проверки работы "{homework_name}". {verdict}'
StatusMessage(homework_name, verdict) ==
    <<"Izmenilsya status proverki raboty \"", homework_name, "\". ", verdict>>

\* str(HOMEWORK_VERDICTS.keys()): "dict_keys(['approved', 'reviewing',
\* 'rejected'])", the keys in the order of the dict literal
verdict_keys_str == <<"dict_keys([", "approved", "reviewing", "rejected", "])">>

\* parse_status with the vocabulary test ahead of the missing-key test: a
\* record with an unknown status and no homework_name is an unknown verdict
parse_status_status_first(homework) ==
    IF "status" \in DOMAIN homework /\ homework.status \notin DOMAIN HOMEWORK_VERDICTS
    THEN Raise("HomeworkVerdictNotFound",
               <<"Neizvestnyj status domashnej raboty {status}.">>)
    ELSE IF missing_keys(homework) # <<>>
    THEN Raise("KeyError",
               <<"Otsutstvuet klyuch/klyuchi:", "<generator object <genexpr>>",
                 " v otvete API">>)
    ELSE Return(StatusMessage(homework.homework_name,
                              HOMEWORK_VERDICTS[homework.status]))

\* parse_status(homework)
\*   'Отсутствует ключ/ключи:{(key for key in missing_keys)} в ответе API':
\*       the f-string formats a generator object, not the key names;
\*   'Неизвестный статус домашней работы {status}.' is not an f-string, so
\*       the braces stay in the text; f'{HOMEWORK_VERDICTS.keys()}.'
parse_status(homework) ==
    IF missing_keys(homework) # <<>>
    THEN Raise("KeyError",
               <<"Otsutstvuet klyuch/klyuchi:", "<generator object <genexpr>>",
                 " v otvete API">>)
    ELSE IF homework.status \notin DOMAIN HOMEWORK_VERDICTS
    THEN Raise("HomeworkVerdictNotFound",
               <<"Neizvestnyj status domashnej raboty {status}.",
                 "Bot rabotaet so sleduyushchimi statusami:">>
               \o verdict_keys_str \o <<".">>)
    ELSE Return(StatusMessage(homework.homework_name,
                              HOMEWORK_VERDICTS[homework.status]))

\* message = 'Нет новых статусов домашних работ.'
NoNewMessage == <<"Net novyh statusov domashnih rabot.">>

LogEntry(level, text) == [level |-> level, text |-> text]

\* send_message without its except Exception clause: only TelegramError is
\* absorbed, any other exception of the delivery call leaves it
send_message_telegram_only(outcome, message) ==
    IF outcome = "ok"
    THEN [log |-> <<LogEntry("debug", <<"Soobshchenie otpravleno: ", message>>)>>,
          exc |-> NoExc]
    ELSE IF IsSubclass(outcome, "TelegramError")
    THEN [log |-> <<LogEntry("error",
                             <<"Sboj pri otpravke soobshcheniya: ", outcome>>)>>,
          exc |-> NoExc]
    ELSE [log |-> <<>>, exc |-> Exc(outcome, <<>>)]

\* send_message without its try statement: every exception of the delivery
\* call leaves it
send_message_no_catch(outcome, message) ==
    IF outcome = "ok"
    THEN [log |-> <<LogEntry("debug", <<"Soobshchenie otpravleno: ", message>>)>>,
          exc |-> NoExc]
    ELSE [log |-> <<>>, exc |-> Exc(outcome, <<>>)]

\* send_message(bot, message), given what bot.send_message did: the log
\* entries it writes and the exception that leaves it (NoExc when it returns)
\*   'Сбой при отправке сообщения: {telegram_error}',
\*   'Другая ошибка при отправке сообщения: {other_error}',
\*   'Сообщение отправлено: {message}'
send_message(outcome, message) ==
    IF outcome = "ok"
    THEN [log |-> <<LogEntry("debug", <<"Soobshchenie otpravleno: ", message>>)>>,
          exc |-> NoExc]
    ELSE IF IsSubclass(outcome, "TelegramError")
    THEN [log |-> <<LogEntry("error",
                             <<"Sboj pri otpravke soobshcheniya: ", outcome>>)>>,
          exc |-> NoExc]
    ELSE IF IsSubclass(outcome, "Exception")
    THEN [log |-> <<LogEntry("error",
                             <<"Drugaya oshibka pri otpravke soobshcheniya: ",
                               outcome>>)>>,
          exc |-> NoExc]
    ELSE [log |-> <<>>, exc |-> Exc(outcome, <<>>)]

\* the test inverted: "if homeworks:"
no_homeworks_inverted(hws) == hws.val # <<>>

\* line 134: not homeworks
no_homeworks(hws) == hws.val = <<>>

\* the index -1 in the place of 0: the last record
last_homework(hws) == hws.val[Len(hws.val)]

\* line 138: check_response(response)[0]
first_homework(hws) == hws.val[1]

\* response.get('current_date') with the default lost: without the key the
\* cursor falls back to a fixed value
next_timestamp_reset(resp, ts) == DictGet(resp.val, "current_date", StartTime)

\* the cursor update with a type check: a current_date that is no integer is
\* ignored
next_timestamp_int_only(resp, ts) ==
    IF PyIsInt(DictGet(resp.val, "current_date", ts))
    THEN DictGet(resp.val, "current_date", ts)
    ELSE ts

\* the cursor update lost: the cursor keeps its value
next_timestamp_kept(resp, ts) == ts

\* timestamp = response.get('current_date', timestamp)
next_timestamp(resp, ts) == DictGet(resp.val, "current_date", ts)

(* ------------------------------ state --------------------------------- *)

VARIABLES
    env,          \* PRACTICUM_TOKEN, TELEGRAM_TOKEN, TELEGRAM_CHAT_ID
    pc,           \* the position of main()
    timestamp,    \* main's local timestamp: the cursor
    response,     \* main's local response
    homeworks,    \* main's local homeworks
    message,      \* main's local message
    exc,          \* the exception raised in the try body of this cycle
    pending,      \* the exception leaving the except clause, if any
    exit_status,  \* <<>> while the process runs, <<code>> once it has ended
    log,          \* the log entries written since the cycle began
    sends,        \* the texts handed to bot.send_message since the cycle began
    outcomes,     \* what each of those calls did
    slept,        \* the seconds slept since the last fetch was issued
    from_date,    \* the from_date parameter of the last request
    cycle,        \* what this cycle's reply carried
    last          \* what the previous cycle's reply carried

vars == <<env, pc, timestamp, response, homeworks, message, exc, pending,
          exit_status, log, sends, outcomes, slept, from_date, cycle, last>>

\* what a reply carries, read off the reply itself:
\*   fetched: the request ended with a decoded 200 reply
\*   date:    its current_date, when it is an object with that key
\*   listed:  it is an object whose homeworks is a list
\*   count:   the length of that list
\*   first:   the first record of that list
\*   reply:   the reply itself
Carried(reply) ==
    LET got == reply.ok /\ reply.status_code = HTTP_OK /\ reply.json_ok
        obj == got /\ reply.body.type = "dict"
        lst == obj /\ "homeworks" \in DOMAIN reply.body.val
                   /\ reply.body.val.homeworks.type = "list"
        n == IF lst THEN Len(reply.body.val.homeworks.val) ELSE 0
    IN  [fetched |-> got,
         date |-> IF obj /\ "current_date" \in DOMAIN reply.body.val
                  THEN reply.body.val.current_date ELSE NoDate,
         listed |-> lst,
         count |-> n,
         first |-> IF n > 0 THEN reply.body.val.homeworks.val[1] ELSE <<>>,
         reply |-> reply]

\* no request was issued in this cycle yet
NoReply == [ok |-> FALSE, status_code |-> NoDate, json_ok |-> FALSE, body |-> PyNone]

NoCycle == [fetched |-> FALSE, date |-> NoDate, listed |-> FALSE, count |-> 0,
            first |-> <<>>, reply |-> NoReply]

\* what is kept of a cycle once it is over, and whether its try body raised
LastOf(c, e) == [fetched |-> c.fetched, date |-> c.date, listed |-> c.listed,
                 failed |-> e.type # "none"]

NoLast == LastOf(NoCycle, NoExc)

Envs == [PRACTICUM_TOKEN : EnvValues, TELEGRAM_TOKEN : EnvValues,
         TELEGRAM_CHAT_ID : EnvValues]

Init ==
    /\ env \in Envs
    /\ pc = "main"
    /\ timestamp = NoDate
    /\ response = Unbound
    /\ homeworks = Unbound
    /\ message = UnboundStr
    /\ exc = NoExc
    /\ pending = NoExc
    /\ exit_status = <<>>
    /\ log = <<>>
    /\ sends = <<>>
    /\ outcomes = <<>>
    /\ slept = 0
    /\ from_date = NoDate
    /\ cycle = NoCycle
    /\ last = NoLast

(* ----------------------------- actions ------------------------------- *)

\* main(), lines 120-126: the configuration check, the bot, the first cursor
\*   critical: 'Отсутствует хотя бы одна переменная окружения'
\*   sys.exit('Аварийный выход, ошибка!') ends the process with status 1
\*   debug: 'Переменные окружения доступны'
Startup ==
    /\ pc = "main"
    /\ IF ~check_tokens(env)
       THEN /\ log' = Append(log, LogEntry("critical",
                         <<"Otsutstvuet hotya by odna peremennaya okruzheniya">>))
            /\ exit_status' = <<1>>
            /\ pc' = "exited"
            /\ UNCHANGED timestamp
       ELSE /\ log' = Append(log, LogEntry("debug",
                         <<"Peremennye okruzheniya dostupny">>))
            /\ timestamp' = StartTime
            /\ pc' = "fetch"
            /\ UNCHANGED exit_status
    /\ UNCHANGED <<env, response, homeworks, message, exc, pending, sends,
                   outcomes, slept, from_date, cycle, last>>

\* line 129: response = get_api_answer(timestamp).  The endpoint answers (or
\* the transport fails) with one of Replies, or it accepts the request and
\* never answers: requests.get then raises Timeout (a RequestException) once
\* the timeout of the call has passed, and never returns when the call has no
\* timeout.
Fetch ==
    /\ pc = "fetch"
    /\ from_date' = timestamp
    /\ \/ \E reply \in Replies :
             LET r == get_api_answer(reply)
             IN  /\ cycle' = Carried(reply)
                 /\ IF r.kind = "return"
                    THEN /\ response' = r.value
                         /\ pc' = "validate"
                         /\ UNCHANGED exc
                    ELSE /\ exc' = r.exc
                         /\ pc' = "except"
                         /\ UNCHANGED response
       \/ /\ cycle' = Carried(TransportFailure)
          /\ IF request_timeout = NoTimeout
             THEN /\ pc' = "blocked"
                  /\ UNCHANGED exc
             ELSE /\ exc' = get_api_answer(TransportFailure).exc
                  /\ pc' = "except"
          /\ UNCHANGED response
    /\ log' = <<>>
    /\ sends' = <<>>
    /\ outcomes' = <<>>
    /\ slept' = 0
    /\ UNCHANGED <<env, timestamp, homeworks, message, pending, exit_status, last>>

\* lines 130-136: homeworks = check_response(response), the cursor update and
\* the branch on an empty list
\*   info: 'Нет новых статусов домашних работ.'
Validate ==
    /\ pc = "validate"
    /\ LET r == check_response(response)
       IN  IF r.kind = "raise"
           THEN /\ exc' = r.exc
                /\ pc' = "except"
                /\ UNCHANGED <<homeworks, timestamp, message, log>>
           ELSE /\ homeworks' = r.value
                /\ timestamp' = next_timestamp(response, timestamp)
                /\ IF no_homeworks(r.value)
                   THEN /\ message' = NoNewMessage
                        /\ log' = Append(log, LogEntry("info", NoNewMessage))
                        /\ pc' = "sleep"
                   ELSE /\ pc' = "format"
                        /\ UNCHANGED <<message, log>>
                /\ UNCHANGED exc
    /\ UNCHANGED <<env, response, pending, exit_status, sends, outcomes, slept,
                   from_date, cycle, last>>

\* line 138: message = parse_status(check_response(response)[0])
Format ==
    /\ pc = "format"
    /\ LET v == check_response(response)
           r == IF v.kind = "raise" THEN v ELSE parse_status(first_homework(v.value))
       IN  IF r.kind = "raise"
           THEN /\ exc' = r.exc
                /\ pc' = "except"
                /\ UNCHANGED message
           ELSE /\ message' = r.value
                /\ pc' = "notify"
                /\ UNCHANGED exc
    /\ UNCHANGED <<env, timestamp, response, homeworks, pending, exit_status, log,
                   sends, outcomes, slept, from_date, cycle, last>>

\* lines 139-140: send_message(bot, message); logger.info(message)
Notify ==
    /\ pc = "notify"
    /\ \E outcome \in DeliveryOutcomes :
          LET r == send_message(outcome, message)
          IN  /\ sends' = Append(sends, message)
              /\ outcomes' = Append(outcomes, outcome)
              /\ IF r.exc = NoExc
                 THEN /\ log' = Append(log \o r.log, LogEntry("info", message))
                      /\ pc' = "sleep"
                      /\ UNCHANGED exc
                 ELSE /\ log' = log \o r.log
                      /\ exc' = r.exc
                      /\ pc' = "except"
    /\ UNCHANGED <<env, timestamp, response, homeworks, message, pending,
                   exit_status, slept, from_date, cycle, last>>

\* lines 141-152: the except clauses of the loop body
\*   except NotForSendingError as error:
\*       'Сбой в работе программы,не отправленные в телегу: {error}', logged
\*   except Exception:
\*       send_message(bot, message): reading message before any assignment
\*       raises UnboundLocalError here, outside send_message's own try;
\*       except TelegramError as error: 'Не удалось отправить в телегу: {error}'
Except ==
    /\ pc = "except"
    /\ IF IsSubclass(exc.type, "NotForSendingError")
       THEN /\ message' = <<"Sboj v rabote programmy,",
                            "ne otpravlennye v telegu: ", exc.type>>
            /\ log' = Append(log, LogEntry("error", message'))
            /\ UNCHANGED <<sends, outcomes, pending>>
       ELSE IF message = UnboundStr
       THEN /\ pending' = Exc("UnboundLocalError", <<"message">>)
            /\ UNCHANGED <<message, log, sends, outcomes>>
       ELSE \E outcome \in DeliveryOutcomes :
               LET r == send_message(outcome, message)
               IN  /\ sends' = Append(sends, message)
                   /\ outcomes' = Append(outcomes, outcome)
                   /\ IF r.exc = NoExc
                      THEN /\ log' = log \o r.log
                           /\ UNCHANGED <<message, pending>>
                      ELSE IF IsSubclass(r.exc.type, "TelegramError")
                      THEN /\ message' = <<"Ne udalos otpravit v telegu: ",
                                           r.exc.type>>
                           /\ log' = Append(log \o r.log,
                                            LogEntry("error", message'))
                           /\ UNCHANGED pending
                      ELSE /\ log' = log \o r.log
                           /\ pending' = r.exc
                           /\ UNCHANGED message
    /\ pc' = "sleep"
    /\ UNCHANGED <<env, timestamp, response, homeworks, exc, exit_status, slept,
                   from_date, cycle, last>>

\* the sleep at the end of the try body instead of in a finally clause: a
\* cycle that raised does not sleep
sleep_unless_raised == IF exc.type = "none" THEN RETRY_PERIOD ELSE 0

\* finally: time.sleep(RETRY_PERIOD)
finally_sleep == RETRY_PERIOD

\* lines 153-154 and the end of the loop body: the sleep, then the next
\* iteration, or the exception that left the except clause ends main() and
\* the process (status 1).  response, homeworks and the exception are not
\* read again before they are assigned again: the cycle's locals end here.
Sleep ==
    /\ pc = "sleep"
    /\ slept' = slept + finally_sleep
    /\ IF pending # NoExc
       THEN /\ pc' = "crashed"
            /\ exit_status' = <<1>>
       ELSE /\ pc' = "fetch"
            /\ UNCHANGED exit_status
    /\ response' = Unbound
    /\ homeworks' = Unbound
    /\ exc' = NoExc
    /\ log' = <<>>
    /\ sends' = <<>>
    /\ outcomes' = <<>>
    /\ last' = LastOf(cycle, exc)
    /\ cycle' = NoCycle
    /\ UNCHANGED <<env, timestamp, message, pending, from_date>>

Next == Startup \/ Fetch \/ Validate \/ Format \/ Notify \/ Except \/ Sleep

Spec == Init /\ [][Next]_vars

(* ------------------------------ claims -------------------------------- *)

\* the positions of a cycle after its fetch was issued
InCycle == {"validate", "format", "notify", "except", "sleep"}

\* the messages the try body can produce: the "no new status" text and the
\* status messages
StatusMessages ==
    {StatusMessage(n, HOMEWORK_VERDICTS[s]) : n \in Names, s \in DOMAIN HOMEWORK_VERDICTS}

ProducedMessages == {NoNewMessage} \cup StatusMessages

C2_LoopNeverLeft == from_date # NoDate => exit_status = <<>>

\* C3, as claimed: in a cycle whose fetch, validate or format failed, no text
\* handed to the Notifier is a message produced by the try body (a status
\* message or the "no new status" text), which can only stem from an earlier
\* cycle.
C3_ErrorTextFresh ==
    exc.type # "none" => \A i \in 1..Len(sends) : sends[i] \notin ProducedMessages

\* C4, as claimed: a cycle whose first homework record (with both keys) has a
\* status outside the vocabulary ends with the unknown-verdict error and with
\* no status-change message handed to the Notifier.
C4_UnknownVerdictNoStatusMessage ==
    (/\ pc = "sleep"
     /\ cycle.count > 0
     /\ DOMAIN cycle.first = {"homework_name", "status"}
     /\ cycle.first.status \notin DOMAIN HOMEWORK_VERDICTS)
        => /\ exc.type = "HomeworkVerdictNotFound"
           /\ \A i \in 1..Len(sends) : sends[i] \notin StatusMessages

\* C5, as claimed: a cycle that failed in fetch, validate or format (and whose
\* handler completed) has written an error-level log entry when the loop is
\* about to sleep.
C5_FailureLogged ==
    (pc = "sleep" /\ exc.type # "none" /\ pending = NoExc)
        => \E i \in 1..Len(log) : log[i].level = "error"

C7_StatusMessageSentOnce ==
    (/\ pc = "sleep"
     /\ cycle.count > 0
     /\ DOMAIN cycle.first = {"homework_name", "status"}
     /\ cycle.first.status \in {"approved", "reviewing", "rejected"})
        => /\ sends = << <<"Izmenilsya status proverki raboty \"",
                           cycle.first.homework_name, "\". ",
                           HOMEWORK_VERDICTS[cycle.first.status]>> >>
           /\ exc.type = "none"
           /\ cycle.date # NoDate => timestamp = cycle.date

\* C7 witness: scenario A with a second record behind the first: "hw1",
\* approved, current_date 1, the message handed over once, the cursor at 1
C7_Witness ==
    /\ pc = "sleep"
    /\ cycle.count = 2
    /\ cycle.first = [homework_name |-> "hw1", status |-> "approved"]
    /\ cycle.date = 1
    /\ timestamp = 1
    /\ sends = << <<"Izmenilsya status proverki raboty \"", "hw1", "\". ",
                    "Rabota proverena: revyueru vsyo ponravilos. Ura!">> >>

\* a configuration value is missing: unset, or set to the empty string (both
\* are falsy for all())
Missing(e) == \E k \in DOMAIN e : e[k] \in {"None", ""}

\* C8: after the startup check, if a configuration value is missing the
\* process has ended with a non-zero status and a critical log entry, and no
\* fetch, no notification and no sleep has happened; if all three are present
\* the process has not ended there: the loop is entered.
C8_StartupCheck ==
    pc # "main"
        => IF Missing(env)
           THEN /\ pc = "exited"
                /\ Len(exit_status) = 1 /\ exit_status[1] # 0
                /\ Len(log) = 1 /\ log[1].level = "critical"
                /\ from_date = NoDate
                /\ sends = <<>>
                /\ slept = 0
           ELSE pc \in InCycle \cup {"fetch", "blocked", "crashed"}

\* C8 witness: one value unset, the process ended before the loop
C8_Witness ==
    /\ pc = "exited"
    /\ env = [PRACTICUM_TOKEN |-> "tok", TELEGRAM_TOKEN |-> "tok",
              TELEGRAM_CHAT_ID |-> "None"]
    /\ exit_status = <<1>>

\* C9: whenever the loop is about to issue a fetch that is not the first, it
\* has slept exactly once, for RETRY_PERIOD seconds, since the previous fetch;
\* before the first fetch and inside a cycle it has not slept; a process that
\* ends after a cycle has slept first.
C9_OneSleepBetweenFetches ==
    /\ (pc = "fetch" /\ from_date # NoDate) => slept = 600
    /\ (pc = "fetch" /\ from_date = NoDate) => slept = 0
    /\ pc \in InCycle => slept = 0
    /\ pc = "crashed" => slept = 600

\* C9 witness: the loop about to fetch again after a cycle that raised
C9_Witness ==
    /\ pc = "fetch"
    /\ last.failed
    /\ slept = 600

\* the number of log entries of a level written in this cycle
LogCount(level) == Cardinality({j \in 1..Len(log) : log[j].level = level})

\* C10, the state part: once a delivery was attempted in a cycle, no exception
\* is in flight out of the except clause, the delivery's exception is not the
\* cycle's exception, the loop is at its sleep step, every successful delivery
\* has a debug entry with the text sent, every failed one an error entry naming
\* the failure, and no other debug or error entry was written.
C10_DeliveryState ==
    outcomes # <<>>
        => /\ pc = "sleep"
           /\ pending = NoExc
           /\ exc.type \notin DeliveryOutcomes
           /\ \A i \in 1..Len(outcomes) :
                 IF outcomes[i] = "ok"
                 THEN \E j \in 1..Len(log) :
                         /\ log[j].level = "debug"
                         /\ log[j].text = <<"Soobshchenie otpravleno: ", sends[i]>>
                 ELSE \E j \in 1..Len(log) :
                         /\ log[j].level = "error"
                         /\ log[j].text[2] = outcomes[i]
           /\ LogCount("debug")
                 = Cardinality({i \in 1..Len(outcomes) : outcomes[i] = "ok"})
           /\ LogCount("error")
                 = Cardinality({i \in 1..Len(outcomes) : outcomes[i] # "ok"})

\* C10: a delivery, failed or not, for a status message or for a failure
\* notification, never leaves the Notifier as an exception: the cycle is at its
\* sleep step with the log entries above, and its sleep is followed by the
\* next cycle's fetch, the process still running.
C10_DeliveryNeverPropagates ==
    /\ []C10_DeliveryState
    /\ [][(pc = "sleep" /\ outcomes # <<>>)
             => (pc' = "fetch" /\ exit_status' = <<>>)]_vars

\* C10 witness: the delivery of a failure notification has failed, and the
\* cycle is at its sleep step
C10_Witness ==
    /\ pc = "sleep"
    /\ exc.type # "none"
    /\ outcomes = <<"ApiTelegramException">>
    /\ pending = NoExc

\* the reply of a cycle brought no new cursor: the fetch failed, or the
\* response has no current_date key
NoNewCursor(c) == ~c.fetched \/ c.date = NoDate

\* C11, the state part: in a cycle whose fetch failed or whose response has no
\* current_date key, the cursor is the from_date the cycle's fetch was issued
\* with, at every position of the cycle and when the loop is about to fetch
\* again.
C11_CursorKeptState ==
    /\ (pc \in InCycle /\ NoNewCursor(cycle)) => timestamp = from_date
    /\ (pc = "fetch" /\ from_date # NoDate /\ NoNewCursor(last))
          => timestamp = from_date

\* C11: a cycle whose fetch fails (transport failure, non-200 status,
\* undecodable body) or whose response has no current_date key leaves the
\* cursor unchanged, and the fetch that follows it is issued with the same
\* from_date.
C11_CursorKept ==
    /\ []C11_CursorKeptState
    /\ [][(pc = "fetch" /\ from_date # NoDate /\ NoNewCursor(last))
             => from_date' = from_date]_vars

\* C11 witness: the cursor had moved to MaxDate, then a fetch failed, and the
\* loop is about to fetch again with the cursor still at MaxDate
C11_Witness ==
    /\ pc = "fetch"
    /\ ~last.fetched /\ last.failed
    /\ from_date = MaxDate
    /\ timestamp = MaxDate

\* C12, as claimed: no fetch stays blocked: a request the endpoint never
\* answers is ended by the request timeout (and the cycle goes on to its
\* except clause and its sleep).
C12_FetchCompletes == pc # "blocked"

\* C13: once validate has run on a fetched payload, exactly one outcome has
\* happened, decided in this order: a TypeError naming the payload's type if it
\* is not a mapping; a KeyError if it has no homeworks key; a TypeError naming
\* the value's type if the homeworks value is not a list; otherwise homeworks
\* is the value of the key itself, whatever its elements are, an empty list
\* included, and validate raised nothing.
C13_ValidateOutcome ==
    (pc \in {"format", "notify", "except", "sleep"} /\ cycle.fetched)
        => IF response.type # "dict"
           THEN /\ pc \in {"except", "sleep"}
                /\ homeworks = Unbound
                /\ exc.type = "TypeError"
                /\ exc.detail[2] = response.type
           ELSE IF "homeworks" \notin DOMAIN response.val
           THEN /\ pc \in {"except", "sleep"}
                /\ homeworks = Unbound
                /\ exc.type = "KeyError"
                /\ exc.detail = <<"V otvete net klyucha \"homeworks\"">>
           ELSE IF response.val.homeworks.type # "list"
           THEN /\ pc \in {"except", "sleep"}
                /\ homeworks = Unbound
                /\ exc.type = "TypeError"
                /\ exc.detail[3] = response.val.homeworks.type
           ELSE /\ homeworks = response.val.homeworks
                /\ exc.type \in {"none", "KeyError", "HomeworkVerdictNotFound"}
                /\ exc.type = "KeyError" => Len(exc.detail) = 3

\* C13 witness: a mapping whose homeworks is not a list was refused with the
\* second shape error
C13_Witness ==
    /\ pc = "except"
    /\ response = PyDict([homeworks |-> PyNone, current_date |-> 1])
    /\ exc.type = "TypeError"
    /\ homeworks = Unbound

\* C14: once format has run on the first record of a cycle, exactly one
\* outcome has happened: a KeyError if homework_name or status is absent (also
\* when the status present is unknown); otherwise HomeworkVerdictNotFound if
\* the status is not approved, reviewing or rejected; otherwise the message is
\* the template string with the mapped verdict and nothing was raised.  Right
\* after format nothing was logged and nothing was handed to the Notifier.
C14_FormatOutcome ==
    (pc \in {"notify", "except", "sleep"} /\ cycle.listed /\ cycle.count > 0)
        => /\ IF {"homework_name", "status"} \ DOMAIN cycle.first # {}
              THEN /\ pc \in {"except", "sleep"}
                   /\ exc.type = "KeyError"
              ELSE IF cycle.first.status \notin {"approved", "reviewing", "rejected"}
              THEN /\ pc \in {"except", "sleep"}
                   /\ exc.type = "HomeworkVerdictNotFound"
              ELSE /\ pc \in {"notify", "sleep"}
                   /\ exc.type = "none"
                   /\ message = <<"Izmenilsya status proverki raboty \"",
                                  cycle.first.homework_name, "\". ",
                                  HOMEWORK_VERDICTS[cycle.first.status]>>
           /\ pc \in {"notify", "except"} => (log = <<>> /\ sends = <<>>)

\* C14 witness: a record with an unknown status and no homework_name was
\* refused as a missing field
C14_Witness ==
    /\ pc = "except"
    /\ cycle.count > 0
    /\ cycle.first = [status |-> "pending"]
    /\ exc.type = "KeyError"

\* C15: once the fetch of a cycle has ended, exactly one result has happened,
\* decided in this order: ConnectionError on a transport failure;
\* CustomAPIResponseError carrying the numeric status when the status is not
\* 200, whether the body is JSON or not; JSONDecodeError when the body of a 200
\* reply is not JSON; otherwise response is the decoded body itself, whatever
\* its shape, and the fetch raised nothing.
C15_FetchOutcome ==
    pc \in InCycle
        => IF ~cycle.reply.ok
           THEN /\ pc \in {"except", "sleep"}
                /\ response = Unbound
                /\ exc.type = "ConnectionError"
           ELSE IF cycle.reply.status_code # 200
           THEN /\ pc \in {"except", "sleep"}
                /\ response = Unbound
                /\ exc.type = "CustomAPIResponseError"
                /\ exc.detail[2] = cycle.reply.status_code
           ELSE IF ~cycle.reply.json_ok
           THEN /\ pc \in {"except", "sleep"}
                /\ response = Unbound
                /\ exc.type = "JSONDecodeError"
           ELSE /\ response = cycle.reply.body
                /\ exc.type \notin {"ConnectionError", "CustomAPIResponseError",
                                    "JSONDecodeError"}

\* C15 witness: a 503 reply with a JSON body ended as the upstream-status
\* error carrying 503
C15_Witness ==
    /\ pc = "except"
    /\ cycle.reply.ok /\ cycle.reply.json_ok
    /\ cycle.reply.status_code = 503
    /\ exc.type = "CustomAPIResponseError"
    /\ exc.detail[2] = 503

\* C16, as a dependence: when a cycle with a validated payload is about to
\* sleep, its outcome is determined by the state the cycle started from (the
\* cursor from_date, the message left by earlier cycles), by whether the
\* homeworks list is empty, by its first record, by current_date and by what
\* the delivery call did: the text handed to the Notifier, the error and the
\* cursor are the ones format gives for the first record alone.  Two validated
\* payloads that agree on the first record and on current_date therefore end
\* the cycle alike; no record after the first is read.
C16_OnlyFirstRecord ==
    (pc = "sleep" /\ cycle.listed)
        => /\ timestamp = (IF cycle.date # NoDate THEN cycle.date ELSE from_date)
           /\ IF cycle.count = 0
              THEN sends = <<>> /\ exc.type = "none" /\ message = NoNewMessage
              ELSE LET r == parse_status(cycle.first)
                   IN  IF r.kind = "return"
                       THEN /\ exc.type = "none"
                            /\ message = r.value
                            /\ sends = <<r.value>>
                       ELSE /\ exc.type = r.exc.type
                            /\ sends = (IF message = UnboundStr THEN <<>>
                                        ELSE <<message>>)

\* C16 witness: a list of two records that differ, the cycle ended by the
\* first one alone (its status message handed over)
C16_Witness ==
    /\ pc = "sleep"
    /\ cycle.count = 2
    /\ cycle.first = [homework_name |-> "hw1", status |-> "rejected"]
    /\ response.val.homeworks.val[2] = [status |-> "pending"]
    /\ sends = <<StatusMessage("hw1", "Rabota proverena: u revyuera est zamechaniya.")>>

\* the pieces of the text an exception carries
Pieces(e) == {e.detail[i] : i \in 1..Len(e.detail)}

\* C17, as claimed: the unknown-verdict error raised by format carries the
\* offending status value and the valid status set, and the missing-field
\* error carries exactly the names of the absent keys among homework_name and
\* status.
C17_FormatErrorsCarryCause ==
    (pc \in {"except", "sleep"} /\ cycle.listed /\ cycle.count > 0)
        => /\ exc.type = "HomeworkVerdictNotFound"
                => /\ cycle.first.status \in Pieces(exc)
                   /\ {"approved", "reviewing", "rejected"} \subseteq Pieces(exc)
           /\ exc.type = "KeyError"
                => \A k \in {"homework_name", "status"} :
                      k \in Pieces(exc) <=> k \notin DOMAIN cycle.first

\* C18: in every cycle the delivery call is attempted at most once: every
\* text handed to the Notifier is one delivery attempt, a cycle that raised
\* nothing and had a record to report has made exactly one when it is about to
\* sleep, and no position of a cycle, after a failed delivery or after an
\* error, has made a second one.
C18_AtMostOneDelivery ==
    /\ Len(sends) <= 1
    /\ Len(outcomes) = Len(sends)
    /\ (pc = "sleep" /\ exc.type = "none" /\ cycle.count > 0) => Len(sends) = 1

\* C18 witness: the delivery of a status message failed and the cycle is about
\* to sleep with that one attempt
C18_Witness ==
    /\ pc = "sleep"
    /\ exc.type = "none"
    /\ cycle.count > 0
    /\ outcomes = <<"TelegramError">>

\* C19, the state part: once main() has set it, the cursor is the startup
\* time or a value the key current_date can hold; in a cycle it is the
\* from_date of the cycle's fetch until validate has passed, and from then on
\* the current_date of the validated response, integer or not, when the
\* response has one.
C19_CursorState ==
    /\ pc \notin {"main", "exited"} => timestamp \in {StartTime} \cup DateValues
    /\ (pc \in {"validate", "blocked"} \/ (pc \in InCycle /\ ~cycle.listed))
          => timestamp = from_date
    /\ (pc \in {"format", "notify", "except", "sleep"} /\ cycle.listed)
          => timestamp = (IF cycle.date = NoDate THEN from_date ELSE cycle.date)

\* C19: the cursor is written at one point of a cycle only: every step that
\* changes it is the startup assignment of the startup time, or the validate
\* step of a cycle whose fetched response passed validate and has a
\* current_date, and it then becomes that value without any check that it is
\* an integer; no step of format, of a delivery, of an except clause or of the
\* sleep changes it.
C19_CursorWrittenOnce ==
    /\ []C19_CursorState
    /\ [][timestamp' # timestamp
             => \/ pc = "main" /\ timestamp' = StartTime
                \/ /\ pc = "validate"
                   /\ cycle.listed
                   /\ cycle.date # NoDate
                   /\ timestamp' = cycle.date]_vars

\* C19 witness: a validated response carried a current_date that is no
\* integer, and the cursor holds it when the loop is about to fetch again
C19_Witness ==
    /\ pc = "fetch"
    /\ last.listed
    /\ last.date = NotAnInteger
    /\ timestamp = NotAnInteger

\* the first pieces of the texts that only the two handlers assign:
\*   f'Сбой в работе программы,' (line 143), f'Не удалось отправить в телегу: {error}' (line 151)
HandlerTexts == {"Sboj v rabote programmy,", "Ne udalos otpravit v telegu: "}

\* C20: the loop's NotForSendingError handler and the inner TelegramError
\* handler of the catch-all branch are never entered: the exception a cycle's
\* fetch, validate or format step raised is never a NotForSendingError (nor a
\* TelegramError, its subclass), no exception of a delivery call leaves
\* send_message, so the only exception pending at the sleep is the
\* UnboundLocalError of the catch-all branch, and neither the message nor the
\* log ever holds a text of one of the two handlers.
C20_HandlersUnreachable ==
    /\ ~IsSubclass(exc.type, "NotForSendingError")
    /\ pending.type \in {"none", "UnboundLocalError"}
    /\ message # UnboundStr => message[1] \notin HandlerTexts
    /\ \A i \in 1..Len(log) : log[i].text[1] \notin HandlerTexts

\* C20 witness: a cycle failed, the catch-all branch resent the message of an
\* earlier cycle, the delivery call raised TelegramError, and the cycle
\* reached its sleep with the message untouched and nothing pending
C20_Witness ==
    /\ pc = "sleep"
    /\ exc.type # "none"
    /\ outcomes = <<"TelegramError">>
    /\ pending = NoExc
    /\ message \in ProducedMessages

====
